---- MODULE Spec2Model ----
(***************************************************************************)
(* OCR-WEB-APP: the upload handler (main.py), the OCR runner, the page     *)
(* extractor, the two engine adapters and the lazy PaddleOCR singleton     *)
(* (ocr.py), and the two query handlers (main.py).                         *)
(*                                                                         *)
(* upload_and_process is an `async def` handler: its coroutine runs on the *)
(* process's single event-loop thread and gives the loop up only at its    *)
(* one await (file.read()).  Everything after that await, run_ocr_on_file  *)
(* included, is synchronous code on the loop thread.  The variable `loop`  *)
(* names the request whose coroutine occupies the loop (0: loop is free).  *)
(*                                                                         *)
(* A text is a sequence of characters.  A row keeps the fields the         *)
(* handlers and the queries read (file_name, page_number, line_number,     *)
(* line_text); the geometry and confidence fields are copied through by    *)
(* the adapters and are not modelled.                                      *)
(***************************************************************************)
EXTENDS Integers, Sequences, FiniteSets, TLC

\* ---------------------------------------------------------------- bounds
MaxReqs == 2
MaxPages == 2
MaxDet == 2
\* settings.MAX_FILE_BYTES (main.py line 70); config.py sets the value.
MAX_FILE_BYTES == 1

\* ---------------------------------------------------------------- inputs
Reqs == 1..MaxReqs
\* Mutation: the MIME check also lets image/png through.
AcceptedTypesWithPng ==
  {"application/pdf", "image/tiff", "image/tif", "image/x-tiff", "image/png"}

\* The set literal of the MIME check in upload_and_process.
AcceptedTypes == {"application/pdf", "image/tiff", "image/tif", "image/x-tiff"}
ContentTypes == {"application/pdf", "image/tiff", "image/png"}
FileNames == {"a.pdf", "b.tif"}
Sizes == {MAX_FILE_BYTES, MAX_FILE_BYTES + 1}
Engines == {"tesseract", "paddle"}
\* Texts an engine may report: empty, whitespace only, padded.
Texts == {<<>>, <<" ">>, <<"a", " ">>}

\* str.lower().endswith(".pdf") on the file names above.
EndsWithPdf(name) == name \in {"a.pdf"}

SeqsUpTo(S, n) == UNION {[1..k -> S] : k \in 0..n}

\* pytesseract.image_to_data(...)["text"]: one text per detected token.
TessOutputs(dets) == SeqsUpTo(Texts, dets)
\* ocr.ocr(...)[0]: one line per region; wf is whether the line unpacks as
\* box, (text, confidence).
PaddleLines == [wf : {TRUE}, text : Texts] \cup {[wf |-> FALSE, text |-> <<>>]}
PaddleOutputs(dets) == SeqsUpTo(PaddleLines, dets)

\* The payloads and engine selectors a client may send.
Uploads ==
  [content_type : ContentTypes, filename : FileNames, size : Sizes, engine : Engines]

NoUpload == [content_type |-> "", filename |-> "", size |-> 0, engine |-> ""]
NoExc == [kind |-> "none", page |-> 0]
NoBody == [pages |-> 0, rows_inserted |-> 0, detail |-> NoExc]
\* A query handler's response, with what was asked and the uploads that had
\* completed when it ran.
NoQuery == [op |-> "none", file_name |-> "", page_number |-> 0, after |-> {},
            files |-> <<>>, total |-> 0, items |-> <<>>]

VARIABLES
  loop,         \* request whose coroutine runs on the event loop, 0 if none
  PaddleOCR,    \* whether `from paddleocr import PaddleOCR` succeeded
  paddle_ocr,   \* the global _paddle_ocr: 0 is None, else the instance
  constructed,  \* number of PaddleOCR(...) instances constructed so far
  racers,       \* paddle uploads in flight when PaddleOCR(...) was last built
  db,           \* committed rows of ocr_results, in id order
  disk,         \* temporary files present in UPLOAD_DIR, named by request
  pc,           \* position of each request's coroutine
  upload,       \* each request's file payload and engine selector
  nframes,      \* pages/frames of the uploaded document
  images,       \* run_ocr_on_file: images
  idx,          \* run_ocr_on_file: pages of `images` processed so far
  all_results,  \* run_ocr_on_file: all_results
  pending,      \* rows inserted in the request's open transaction
  inserted,     \* run_ocr_on_file: inserted
  exc,          \* exception in flight in run_ocr_on_file
  status,       \* HTTP status of the response, 0 while none
  body,         \* response body
  got,          \* what get_paddle_ocr returned last to this request
  failedPage,   \* page on which the engine (or its construction) raised
  fsOps,        \* file-system calls the request has made
  engineCalls,  \* engine invocations the request has made
  dbCalls,      \* session methods the request has called
  dbFailure,    \* which session call raised for the request, if any
  dbAtStart,    \* storage when the request entered run_ocr_on_file
  pageRows,     \* adapter output per processed page (before tagging)
  query         \* last response of a query handler

vars == <<loop, PaddleOCR, paddle_ocr, constructed, racers, db, disk, pc, upload,
          nframes, images, idx, all_results, pending, inserted, exc, status,
          body, got, failedPage, fsOps, engineCalls, dbCalls, dbFailure,
          dbAtStart, pageRows, query>>

engineVars == <<paddle_ocr, constructed, racers>>
respVars == <<status, body>>
loopVars == <<idx, all_results, pageRows>>
dbVars == <<db, pending, inserted, dbCalls, dbFailure>>

\* ------------------------------------------------------- pure functions
IsSpace(c) == c = " "

RECURSIVE lstrip(_)
lstrip(t) == IF t # <<>> /\ IsSpace(Head(t)) THEN lstrip(Tail(t)) ELSE t

RECURSIVE rstrip(_)
rstrip(t) ==
  IF t # <<>> /\ IsSpace(t[Len(t)]) THEN rstrip(SubSeq(t, 1, Len(t) - 1)) ELSE t

\* str.strip()
strip(t) == rstrip(lstrip(t))

\* Whether _ocr_tesseract keeps a detection: `if text:` on the stripped text.
TessKeeps(text) == strip(text) # <<>>

\* _ocr_tesseract: for i in range(len(data["text"])), 0-based line_number.
RECURSIVE TessLoop(_, _, _)
TessLoop(data, i, results) ==
  IF i >= Len(data) THEN results
  ELSE TessLoop(data, i + 1,
         IF TessKeeps(data[i + 1])
           THEN Append(results, [line_number |-> i, line_text |-> strip(data[i + 1])])
           ELSE results)

ocr_tesseract(data) == TessLoop(data, 0, <<>>)

\* Whether _ocr_paddle keeps a line: it unpacks, and `if not text: continue`.
PaddleKeeps(line) == line.wf /\ line.text # <<>>

\* _ocr_paddle: for i, line in enumerate(result[0]).
RECURSIVE PaddleLoop(_, _, _)
PaddleLoop(lines, i, results) ==
  IF i >= Len(lines) THEN results
  ELSE PaddleLoop(lines, i + 1,
         IF PaddleKeeps(lines[i + 1])
           THEN Append(results, [line_number |-> i, line_text |-> lines[i + 1].text])
           ELSE results)

ocr_paddle(result) == IF result = <<>> THEN <<>> ELSE PaddleLoop(result, 0, <<>>)

\* Mutation: frames keep their 0-based index as page number.
PageNumberZeroBased(i) == i

\* Page number given to the frame at 0-based index i: (i + 1, ...).
PageNumberOf(i) == i + 1

\* The TIFF branch: seek(i) until EOFError, which ends the loop.
RECURSIVE TiffLoop(_, _, _)
TiffLoop(n, i, acc) ==
  IF i >= n THEN acc
  ELSE TiffLoop(n, i + 1, Append(acc, [page_number |-> PageNumberOf(i), frame |-> i]))

\* The PDF branch: enumerate(pages, start=1).
PdfPages(n) == [k \in 1..n |-> [page_number |-> k, frame |-> k - 1]]

\* _images_from_file on a file with extension ext holding n pages (n = 0: the
\* document is unreadable or empty).
images_from_file(exists, ext, n) ==
  IF ~exists THEN [raised |-> TRUE, images |-> <<>>]
  ELSE IF ext = ".pdf"
    THEN IF n = 0 THEN [raised |-> TRUE, images |-> <<>>]
         ELSE [raised |-> FALSE, images |-> PdfPages(n)]
  ELSE IF ext \in {".tif", ".tiff"}
    THEN IF n = 0 THEN [raised |-> TRUE, images |-> <<>>]
         ELSE [raised |-> FALSE, images |-> TiffLoop(n, 0, <<>>)]
  ELSE [raised |-> TRUE, images |-> <<>>]

\* r.update({"file_name": original_name, "page_number": page_number})
Tag(rows, name, page) ==
  [k \in 1..Len(rows) |->
     [file_name |-> name, page_number |-> page,
      line_number |-> rows[k].line_number, line_text |-> rows[k].line_text]]

\* Rows as stored: the table assigns ids in insertion order.
Stored(rows, base) ==
  [k \in 1..Len(rows) |->
     [id |-> base + k, file_name |-> rows[k].file_name,
      page_number |-> rows[k].page_number,
      line_number |-> rows[k].line_number, line_text |-> rows[k].line_text]]

\* ext chosen for the temporary file.
TempExt(name) == IF EndsWithPdf(name) THEN ".pdf" ELSE ".tiff"

\* --------------------------------------------------------------- state
Init ==
  /\ loop = 0
  /\ PaddleOCR \in BOOLEAN
  /\ paddle_ocr = 0
  /\ constructed = 0
  /\ racers = {}
  /\ db \in {<<>>,
             Stored(<<[file_name |-> "a.pdf", page_number |-> 1,
                       line_number |-> 0, line_text |-> <<"a">>]>>, 0)}
  /\ disk = {}
  /\ pc = [r \in Reqs |-> "idle"]
  /\ upload = [r \in Reqs |-> NoUpload]
  /\ nframes = [r \in Reqs |-> 0]
  /\ images = [r \in Reqs |-> <<>>]
  /\ idx = [r \in Reqs |-> 0]
  /\ all_results = [r \in Reqs |-> <<>>]
  /\ pending = [r \in Reqs |-> <<>>]
  /\ inserted = [r \in Reqs |-> 0]
  /\ exc = [r \in Reqs |-> NoExc]
  /\ status = [r \in Reqs |-> 0]
  /\ body = [r \in Reqs |-> NoBody]
  /\ got = [r \in Reqs |-> 0]
  /\ failedPage = [r \in Reqs |-> 0]
  /\ fsOps = [r \in Reqs |-> {}]
  /\ engineCalls = [r \in Reqs |-> 0]
  /\ dbCalls = [r \in Reqs |-> {}]
  /\ dbFailure = [r \in Reqs |-> "none"]
  /\ dbAtStart = [r \in Reqs |-> <<>>]
  /\ pageRows = [r \in Reqs |-> <<>>]
  /\ query = NoQuery

\* Mutation: the handler's body runs off the event loop (a plain `def` handler
\* in the threadpool), so a request starts or resumes whatever the others do.
LoopFreeThreaded(r) == TRUE

\* A coroutine starts or resumes only when no other coroutine occupies the
\* event loop: the handler is `async def` and its body after the await has
\* no further await.
LoopFree(r) == loop = 0

\* except Exception as e: raise HTTPException(status_code=500, detail=str(e))
Detail(what) == [NoBody EXCEPT !.detail = [kind |-> what, page |-> 0]]

\* raise HTTPException(status_code=code, ...) out of the handler, or return.
Respond(r, code, b) ==
  /\ status' = [status EXCEPT ![r] = code]
  /\ body' = [body EXCEPT ![r] = b]
  /\ pc' = [pc EXCEPT ![r] = "done"]

\* upload_and_process up to its await: the MIME check, the temp path,
\* os.makedirs (which may raise), then `await file.read()`.
Receive(r, uploads) ==
  /\ pc[r] = "idle"
  /\ LoopFree(r)
  /\ \E u \in uploads, makedirs \in {"ok", "raises"} :
       /\ upload' = [upload EXCEPT ![r] = u]
       /\ IF u.content_type \notin AcceptedTypes
            THEN /\ Respond(r, 415, NoBody)
                 /\ UNCHANGED fsOps
            ELSE /\ fsOps' = [fsOps EXCEPT ![r] = @ \cup {"makedirs"}]
                 /\ IF makedirs = "ok"
                      THEN /\ pc' = [pc EXCEPT ![r] = "reading"]
                           /\ UNCHANGED respVars
                      ELSE Respond(r, 500, Detail("makedirs"))
  /\ UNCHANGED <<loop, PaddleOCR, engineVars, disk, nframes, images, loopVars,
                 exc, failedPage, dbVars, got, engineCalls, dbAtStart, query>>

\* Mutation: the ceiling is compared one byte too high.
TooLargeOffByOne(u) == u.size > MAX_FILE_BYTES + 1

\* len(contents) > settings.MAX_FILE_BYTES
TooLarge(u) == u.size > MAX_FILE_BYTES

\* After the await: file.read() may have raised; the size check; then
\* open(temp_path, "wb") and f.write.  open may fail before the file exists;
\* f.write may fail after open created it.  Neither is inside the try/finally
\* that removes the file.
AfterRead(r) ==
  /\ pc[r] = "reading"
  /\ LoopFree(r)
  /\ \E outcome \in {"ok", "read_raises", "open_raises", "write_raises"} :
       IF outcome = "read_raises"
         THEN /\ Respond(r, 500, Detail("read"))
              /\ UNCHANGED <<loop, disk, fsOps, dbAtStart>>
       ELSE IF TooLarge(upload[r])
         THEN /\ Respond(r, 413, NoBody)
              /\ UNCHANGED <<loop, disk, fsOps, dbAtStart>>
       ELSE /\ fsOps' = [fsOps EXCEPT ![r] =
                 @ \cup (IF outcome = "open_raises" THEN {"open"} ELSE {"open", "write"})]
            /\ disk' = IF outcome = "open_raises" THEN disk ELSE disk \cup {r}
            /\ IF outcome = "ok"
                 THEN /\ pc' = [pc EXCEPT ![r] = "extract"]
                      /\ loop' = r
                      /\ dbAtStart' = [dbAtStart EXCEPT ![r] = db]
                      /\ UNCHANGED respVars
                 ELSE /\ Respond(r, 500, Detail(IF outcome = "open_raises"
                                                   THEN "open" ELSE "write"))
                      /\ UNCHANGED <<loop, dbAtStart>>
  /\ UNCHANGED <<PaddleOCR, engineVars, upload, nframes, images, loopVars, exc,
                 failedPage, dbVars, got, engineCalls, query>>

\* run_ocr_on_file: images = _images_from_file(path).
Extract(r, maxPages) ==
  /\ pc[r] = "extract"
  /\ \E n \in 0..maxPages :
       LET res == images_from_file(r \in disk, TempExt(upload[r].filename), n) IN
       /\ nframes' = [nframes EXCEPT ![r] = n]
       /\ fsOps' = [fsOps EXCEPT ![r] = @ \cup {"exists", "read"}]
       /\ IF res.raised
            THEN /\ exc' = [exc EXCEPT ![r] = [kind |-> "extract", page |-> 0]]
                 /\ pc' = [pc EXCEPT ![r] = "finally"]
                 /\ UNCHANGED images
            ELSE /\ images' = [images EXCEPT ![r] = res.images]
                 /\ pc' = [pc EXCEPT ![r] = "ocr"]
                 /\ UNCHANGED exc
  /\ UNCHANGED <<loop, PaddleOCR, engineVars, disk, upload, loopVars, failedPage,
                 dbVars, respVars, got, engineCalls, dbAtStart, query>>

\* The page the loop `for page_number, image in images` is at.
CurPage(r) == images[r][idx[r] + 1].page_number

\* rows tagged, all_results.extend(rows); the loop moves to the next page.
OcrRows(r, rows) ==
  /\ all_results' = [all_results EXCEPT ![r] =
       @ \o Tag(rows, upload[r].filename, CurPage(r))]
  /\ pageRows' = [pageRows EXCEPT ![r] = Append(@, rows)]
  /\ idx' = [idx EXCEPT ![r] = @ + 1]
  /\ pc' = [pc EXCEPT ![r] = IF idx[r] + 1 = Len(images[r]) THEN "persist" ELSE "ocr"]
  /\ UNCHANGED exc

\* Mutation: a page whose OCR raises is skipped as a page without rows.
OcrSwallow(r) == OcrRows(r, <<>>)

\* except Exception as e: raise RuntimeError(f"OCR failed on page {page_number}: {e}")
OcrRaise(r) ==
  /\ exc' = [exc EXCEPT ![r] = [kind |-> "ocr", page |-> CurPage(r)]]
  /\ pc' = [pc EXCEPT ![r] = "finally"]
  /\ UNCHANGED loopVars

\* Something called inside the page's `try` raises.
EngineRaises(r) ==
  /\ failedPage' = [failedPage EXCEPT ![r] = CurPage(r)]
  /\ OcrRaise(r)

\* One pass of the page loop with engine == SupportedEngine.tesseract.
OcrTesseract(r, maxDet) ==
  /\ pc[r] = "ocr"
  /\ upload[r].engine = "tesseract"
  /\ engineCalls' = [engineCalls EXCEPT ![r] = @ + 1]
  /\ \/ EngineRaises(r)
     \/ /\ \E data \in TessOutputs(maxDet) : OcrRows(r, ocr_tesseract(data))
        /\ UNCHANGED failedPage
  /\ UNCHANGED <<loop, PaddleOCR, engineVars, disk, upload, nframes, images,
                 dbVars, respVars, got, fsOps, dbAtStart, query>>

\* `if _paddle_ocr is None` in get_paddle_ocr.
EngineMissing == paddle_ocr = 0

\* _ocr_paddle -> get_paddle_ocr up to the construction: the None check, and
\* the RuntimeError when the paddleocr import failed.
GetPaddle(r) ==
  /\ pc[r] = "ocr"
  /\ upload[r].engine = "paddle"
  /\ IF EngineMissing
       THEN IF PaddleOCR
              THEN /\ pc' = [pc EXCEPT ![r] = "construct"]
                   /\ UNCHANGED <<exc, got, failedPage, loopVars>>
              ELSE /\ EngineRaises(r)
                   /\ UNCHANGED got
       ELSE /\ got' = [got EXCEPT ![r] = paddle_ocr]
            /\ pc' = [pc EXCEPT ![r] = "infer"]
            /\ UNCHANGED <<exc, failedPage, loopVars>>
  /\ UNCHANGED <<loop, PaddleOCR, engineVars, disk, upload, nframes, images,
                 dbVars, respVars, fsOps, engineCalls, dbAtStart, query>>

\* _paddle_ocr = PaddleOCR(use_angle_cls=True, lang="en"); return _paddle_ocr.
\* The constructor may raise (nothing is assigned then).
Construct(r) ==
  /\ pc[r] = "construct"
  /\ \/ /\ EngineRaises(r)
        /\ UNCHANGED <<engineVars, got>>
     \/ /\ constructed' = constructed + 1
        /\ paddle_ocr' = constructed + 1
        /\ got' = [got EXCEPT ![r] = constructed + 1]
        /\ racers' = {q \in Reqs : /\ pc[q] \notin {"idle", "done"}
                                   /\ upload[q].engine = "paddle"}
        /\ pc' = [pc EXCEPT ![r] = "infer"]
        /\ UNCHANGED <<exc, failedPage, loopVars>>
  /\ UNCHANGED <<loop, PaddleOCR, disk, upload, nframes, images, dbVars,
                 respVars, fsOps, engineCalls, dbAtStart, query>>

\* result = ocr.ocr(np.array(image)) and the rest of _ocr_paddle.
Infer(r, maxDet) ==
  /\ pc[r] = "infer"
  /\ engineCalls' = [engineCalls EXCEPT ![r] = @ + 1]
  /\ \/ EngineRaises(r)
     \/ /\ \E result \in PaddleOutputs(maxDet) : OcrRows(r, ocr_paddle(result))
        /\ UNCHANGED failedPage
  /\ UNCHANGED <<loop, PaddleOCR, engineVars, disk, upload, nframes, images,
                 dbVars, respVars, got, fsOps, dbAtStart, query>>

\* Mutation: `if db:`, the batch is inserted and committed even when empty.
BatchNeverEmpty(r) == FALSE

\* `if db and all_results:` is false (db is the request's session, never None
\* here).
BatchEmpty(r) == all_results[r] = <<>>

\* inserted = 0; `if db and all_results:` then db.bulk_insert_mappings.  The
\* insert may fail at any row: k rows are in the open transaction by then.
Persist(r) ==
  /\ pc[r] = "persist"
  /\ IF BatchEmpty(r)
       THEN /\ pc' = [pc EXCEPT ![r] = "finally"]
            /\ UNCHANGED <<pending, dbCalls, dbFailure>>
       ELSE \E k \in 0..Len(all_results[r]) :
            /\ dbCalls' = [dbCalls EXCEPT ![r] = @ \cup {"bulk_insert_mappings"}]
            /\ pending' = [pending EXCEPT ![r] = SubSeq(all_results[r], 1, k)]
            /\ IF k = Len(all_results[r])
                 THEN /\ pc' = [pc EXCEPT ![r] = "commit"]
                      /\ UNCHANGED dbFailure
                 ELSE /\ pc' = [pc EXCEPT ![r] = "rollback"]
                      /\ dbFailure' = [dbFailure EXCEPT ![r] = "insert"]
  /\ UNCHANGED <<loop, PaddleOCR, engineVars, db, inserted, disk, upload, nframes,
                 images, loopVars, exc, failedPage, respVars, got, fsOps,
                 engineCalls, dbAtStart, query>>

\* What db.commit() makes visible.
Committed(r) == db \o Stored(pending[r], Len(db))

\* db.commit(); inserted = len(all_results).  The commit may fail.
Commit(r) ==
  /\ pc[r] = "commit"
  /\ dbCalls' = [dbCalls EXCEPT ![r] = @ \cup {"commit"}]
  /\ \/ /\ db' = Committed(r)
        /\ pending' = [pending EXCEPT ![r] = <<>>]
        /\ inserted' = [inserted EXCEPT ![r] = Len(all_results[r])]
        /\ pc' = [pc EXCEPT ![r] = "finally"]
        /\ UNCHANGED dbFailure
     \/ /\ pc' = [pc EXCEPT ![r] = "rollback"]
        /\ dbFailure' = [dbFailure EXCEPT ![r] = "commit"]
        /\ UNCHANGED <<db, pending, inserted>>
  /\ UNCHANGED <<loop, PaddleOCR, engineVars, disk, upload, nframes, images,
                 loopVars, exc, failedPage, respVars, got, fsOps, engineCalls,
                 dbAtStart, query>>

\* Mutation: the `except` block rolls back and swallows the exception.
Swallowed == NoExc

\* The exception that leaves the `except` block of the insert: `raise`.
AfterRollback == [kind |-> "db", page |-> 0]

\* except Exception: db.rollback(); raise
Rollback(r) ==
  /\ pc[r] = "rollback"
  /\ dbCalls' = [dbCalls EXCEPT ![r] = @ \cup {"rollback"}]
  /\ pending' = [pending EXCEPT ![r] = <<>>]
  /\ exc' = [exc EXCEPT ![r] = AfterRollback]
  /\ pc' = [pc EXCEPT ![r] = "finally"]
  /\ UNCHANGED <<loop, PaddleOCR, engineVars, db, inserted, dbFailure, disk,
                 upload, nframes, images, loopVars, failedPage, respVars, got,
                 fsOps, engineCalls, dbAtStart, query>>

\* return inserted, len(images)
RunResult(r) ==
  [pages |-> Len(images[r]), rows_inserted |-> inserted[r], detail |-> NoExc]

\* The end of the handler's inner try: `finally` removes the temporary file,
\* then the handler returns the job result or raises HTTPException(500).
Finally(r) ==
  /\ pc[r] = "finally"
  /\ fsOps' = [fsOps EXCEPT ![r] =
       @ \cup (IF r \in disk THEN {"exists", "remove"} ELSE {"exists"})]
  /\ disk' = disk \ {r}
  /\ loop' = 0
  /\ IF exc[r] = NoExc
       THEN Respond(r, 200, RunResult(r))
       ELSE Respond(r, 500, [NoBody EXCEPT !.detail = exc[r]])
  /\ UNCHANGED <<PaddleOCR, engineVars, upload, nframes, images, loopVars, exc,
                 failedPage, dbVars, got, engineCalls, dbAtStart, query>>

\* ------------------------------------------------------------- queries
Max(a, b) == IF a >= b THEN a ELSE b
Min(a, b) == IF a <= b THEN a ELSE b

\* Position of file f in the summaries built so far, 0 if absent.
PosOf(results, f) ==
  IF \E k \in 1..Len(results) : results[k].file_name = f
    THEN CHOOSE k \in 1..Len(results) : results[k].file_name = f
    ELSE 0

\* list_files: the loop over (file_name, page_number) of every stored row.
RECURSIVE ListLoop(_, _, _)
ListLoop(q, i, results) ==
  IF i > Len(q) THEN results
  ELSE LET f == q[i].file_name
           p == q[i].page_number
           pos == PosOf(results, f)
       IN ListLoop(q, i + 1,
            IF pos = 0
              THEN Append(results, [file_name |-> f, pages |-> Max(0, p), rows |-> 1])
              ELSE [results EXCEPT ![pos] =
                      [file_name |-> f, pages |-> Max(@.pages, p), rows |-> @.rows + 1]])

list_files(rows) == ListLoop(rows, 1, <<>>)

\* order_by(page_number, line_number); rows that tie come in id order.
Before(a, b) ==
  \/ a.page_number < b.page_number
  \/ a.page_number = b.page_number /\ a.line_number < b.line_number
  \/ a.page_number = b.page_number /\ a.line_number = b.line_number /\ a.id < b.id

RECURSIVE InsertSorted(_, _)
InsertSorted(s, x) ==
  IF s = <<>> THEN <<x>>
  ELSE IF Before(x, Head(s)) THEN <<x>> \o s
  ELSE <<Head(s)>> \o InsertSorted(Tail(s), x)

RECURSIVE SortRows(_)
SortRows(s) == IF s = <<>> THEN <<>> ELSE InsertSorted(SortRows(Tail(s)), Head(s))

\* get_results; page_number 0 stands for None.
get_results(rows, file_name, page_number, limit, offset) ==
  LET byName == SelectSeq(rows, LAMBDA x : x.file_name = file_name)
      base == IF page_number # 0
                THEN SelectSeq(byName, LAMBDA x : x.page_number = page_number)
                ELSE byName
      ordered == SortRows(base)
  IN [total |-> Len(base),
      items |-> SubSeq(ordered, offset + 1, Min(Len(ordered), offset + limit))]

Completed == {r \in Reqs : pc[r] = "done"}

uploadVars == <<loop, PaddleOCR, engineVars, disk, pc, upload, nframes, images,
                loopVars, exc, failedPage, dbVars, respVars, got, fsOps,
                engineCalls, dbAtStart>>

ListFiles ==
  /\ query' = [NoQuery EXCEPT !.op = "files", !.after = Completed,
                              !.files = list_files(db)]
  /\ query' # query
  /\ UNCHANGED uploadVars

GetResults ==
  /\ \E f \in FileNames, p \in 0..MaxPages, limit \in {1, 50}, offset \in {0, 1} :
       LET res == get_results(db, f, p, limit, offset) IN
       query' = [NoQuery EXCEPT !.op = "results", !.after = Completed,
                                !.file_name = f, !.page_number = p,
                                !.total = res.total, !.items = res.items]
  /\ query' # query
  /\ UNCHANGED uploadVars

\* ------------------------------------------------------- specifications
Step(r, uploads, maxPages, maxDet) ==
  \/ Receive(r, uploads)
  \/ AfterRead(r)
  \/ Extract(r, maxPages)
  \/ OcrTesseract(r, maxDet)
  \/ GetPaddle(r)
  \/ Construct(r)
  \/ Infer(r, maxDet)
  \/ Persist(r)
  \/ Commit(r)
  \/ Rollback(r)
  \/ Finally(r)

\* One upload, documents of up to MaxPages pages and MaxDet detections a page.
Next == \E r \in {1} : Step(r, Uploads, MaxPages, MaxDet)
Spec == Init /\ [][Next]_vars

\* One upload of an accepted PDF within the size ceiling, with the query
\* handlers (threadpool handlers: they may run at any time).
QueryUploads ==
  {u \in Uploads : /\ u.content_type = "application/pdf"
                   /\ u.size = MAX_FILE_BYTES}
NextQueries ==
  \/ \E r \in {1} : Step(r, QueryUploads, MaxPages, MaxDet)
  \/ ListFiles
  \/ GetResults
SpecQueries == Init /\ [][NextQueries]_vars

\* MaxReqs uploads of accepted one-page TIFFs in flight at once, either engine.
ConcurrentUploads ==
  {u \in Uploads : /\ u.content_type = "image/tiff"
                   /\ u.filename = "b.tif"
                   /\ u.size = MAX_FILE_BYTES}
NextConcurrent == \E r \in Reqs : Step(r, ConcurrentUploads, 1, 1)
SpecConcurrent == Init /\ [][NextConcurrent]_vars

\* ------------------------------------------------------------- claims
Accepted(r) ==
  upload[r].content_type \in
    {"application/pdf", "image/tiff", "image/tif", "image/x-tiff"}
Oversized(r) == upload[r].size > MAX_FILE_BYTES

\* C1: however many paddle uploads are in flight while no engine exists, the
\* process constructs at most one PaddleOCR instance, exactly one once any
\* caller of get_paddle_ocr has returned, and every caller gets that instance.
C1_EngineConstructedOnce ==
  /\ constructed <= 1
  /\ \A r \in Reqs : got[r] # 0 => constructed = 1 /\ got[r] = paddle_ocr
  /\ \A r, q \in Reqs : got[r] # 0 /\ got[q] # 0 => got[r] = got[q]

\* Two or more paddle uploads were in flight when the engine was built, and
\* each of them has since been handed the engine.
C1_Witness ==
  /\ Cardinality(racers) >= 2
  /\ \A q \in racers : got[q] # 0

\* C2: once a request has started the bulk insert, either the insert and the
\* commit succeeded, exactly its N rows were added to storage and the result
\* reports N rows inserted; or one of them raised, the transaction was rolled
\* back, storage is as it was before, and the failure reached the caller (500).
C2_PersistAllOrNothing ==
  \A r \in Reqs :
    pc[r] = "done" /\ "bulk_insert_mappings" \in dbCalls[r] =>
      IF dbFailure[r] = "none"
        THEN /\ status[r] = 200
             /\ db = dbAtStart[r] \o Stored(all_results[r], Len(dbAtStart[r]))
             /\ body[r].rows_inserted = Len(all_results[r])
        ELSE /\ status[r] = 500
             /\ body[r].detail.kind = "db"
             /\ "rollback" \in dbCalls[r]
             /\ pending[r] = <<>>
             /\ db = dbAtStart[r]

\* The insert of a batch of two or more rows failed part-way or at once.
C2_Witness ==
  \E r \in Reqs :
    /\ pc[r] = "done"
    /\ dbFailure[r] = "insert"
    /\ Len(all_results[r]) >= 2
    /\ status[r] = 500

\* C3: when a request has completed, on whatever path, the temporary file it
\* created is no longer on disk.
C3_TempFileRemoved == \A r \in Reqs : pc[r] = "done" => r \notin disk

\* The file name of request r had no rows in storage before its upload.
Fresh(r) ==
  \A k \in 1..Len(dbAtStart[r]) : dbAtStart[r][k].file_name # upload[r].filename
RowsOfPage(r, p) == IF p \in 1..Len(pageRows[r]) THEN Len(pageRows[r][p]) ELSE 0

\* C4: after a successful upload of a fresh file name with N pages and R >= 1
\* rows, the result reports pages = N and rows_inserted = R, a later listing
\* reports pages = N and rows = R for the file, and a later results query for
\* page p reports as total the number of rows page p yielded.
C4_EndToEnd ==
  \A r \in Reqs :
    pc[r] = "done" /\ status[r] = 200 /\ Fresh(r) /\ all_results[r] # <<>> =>
      /\ body[r].pages = nframes[r]
      /\ body[r].rows_inserted = Len(all_results[r])
      /\ query.op = "files" /\ r \in query.after =>
           \E k \in 1..Len(query.files) :
             query.files[k] = [file_name |-> upload[r].filename,
                               pages |-> nframes[r],
                               rows |-> Len(all_results[r])]
      /\ query.op = "results" /\ r \in query.after
           /\ query.file_name = upload[r].filename /\ query.page_number >= 1 =>
           query.total = RowsOfPage(r, query.page_number)

\* C5: when the OCR of a page raises, the document is aborted at once: no
\* further page is processed and the failing page is not tried again, no
\* session method is called and storage stays as it was, the error carries
\* the failing page's number, and the upload ends with status 500.
C5_PageFailureAborts ==
  \A r \in Reqs :
    failedPage[r] # 0 =>
      /\ pc[r] \in {"finally", "done"}
      /\ failedPage[r] = idx[r] + 1
      /\ engineCalls[r] <= idx[r] + 1
      /\ exc[r] = [kind |-> "ocr", page |-> failedPage[r]]
      /\ dbCalls[r] = {}
      /\ db = dbAtStart[r]
      /\ pc[r] = "done" => status[r] = 500 /\ body[r].detail = exc[r]

\* Page 1 was OCR'd and yielded rows, page 2 raised, the upload has failed.
C5_Witness ==
  \E r \in Reqs :
    /\ pc[r] = "done"
    /\ failedPage[r] = 2
    /\ all_results[r] # <<>>
    /\ status[r] = 500

\* C6 as stated: every upload over the ceiling whose directory creation and
\* body read went through ends with 413, no temporary file written and no
\* engine invoked.
C6_OversizedIs413 ==
  \A r \in Reqs :
    pc[r] = "done" /\ Oversized(r)
      /\ body[r].detail.kind \notin {"makedirs", "read"} =>
      /\ status[r] = 413
      /\ fsOps[r] \cap {"open", "write"} = {}
      /\ engineCalls[r] = 0

\* C6 amended: an upload over the ceiling never gets a temporary file written,
\* a page extracted or an engine invoked; it ends with 415 when its MIME type
\* is not accepted (that check comes first) and otherwise with 413, unless
\* os.makedirs or file.read() raised (500).
C6_OversizedRejected ==
  \A r \in Reqs :
    pc[r] # "idle" /\ Oversized(r) =>
      /\ pc[r] \in {"reading", "done"}
      /\ fsOps[r] \subseteq {"makedirs"}
      /\ r \notin disk
      /\ engineCalls[r] = 0
      /\ pc[r] = "done" =>
           IF ~Accepted(r) THEN status[r] = 415
           ELSE IF body[r].detail.kind \in {"makedirs", "read"} THEN status[r] = 500
           ELSE status[r] = 413

\* An accepted PDF or TIFF over the ceiling was answered 413.
C6_Witness ==
  \E r \in Reqs :
    pc[r] = "done" /\ Oversized(r) /\ Accepted(r) /\ status[r] = 413

\* C7: an upload whose MIME type is none of the four accepted ones ends at
\* once with 415 and has made no file-system call: no directory creation, no
\* file write, read or removal.
C7_BadMimeRejectedFirst ==
  \A r \in Reqs :
    pc[r] # "idle" /\ ~Accepted(r) =>
      /\ pc[r] = "done"
      /\ status[r] = 415
      /\ fsOps[r] = {}
      /\ r \notin disk
      /\ engineCalls[r] = 0

\* An image/png upload was answered 415.
C7_Witness ==
  \E r \in Reqs :
    pc[r] = "done" /\ upload[r].content_type = "image/png" /\ status[r] = 415

NonBlank(rows) == \A k \in 1..Len(rows) : strip(rows[k].line_text) # <<>>

\* C8: every row an adapter returned, every row of a batch and every stored
\* row has a line_text that is non-empty after trimming.
C8_NoBlankRows ==
  /\ NonBlank(db)
  /\ \A r \in Reqs :
       /\ NonBlank(all_results[r])
       /\ \A p \in 1..Len(pageRows[r]) : NonBlank(pageRows[r][p])

\* Every page of the document of request r was OCR'd and yielded no row.
AllPagesEmpty(r) ==
  /\ nframes[r] >= 1
  /\ Len(pageRows[r]) = nframes[r]
  /\ \A p \in 1..nframes[r] : pageRows[r][p] = <<>>

\* C9: when every page yields zero rows, run_ocr_on_file raises nothing and
\* calls no session method, storage stays as it was, and the upload ends with
\* status 200, rows_inserted = 0 and the document's page count.
C9_EmptyBatch ==
  \A r \in Reqs :
    AllPagesEmpty(r) =>
      /\ pc[r] \in {"persist", "finally", "done"}
      /\ exc[r] = NoExc
      /\ dbCalls[r] = {}
      /\ db = dbAtStart[r]
      /\ pc[r] = "done" =>
           /\ status[r] = 200
           /\ body[r].rows_inserted = 0
           /\ body[r].pages = nframes[r]

\* A two-page document without any row has been answered.
C9_Witness ==
  \E r \in Reqs : pc[r] = "done" /\ nframes[r] = 2 /\ AllPagesEmpty(r)

\* The document of request r has been extracted.
Extracted(r) == "read" \in fsOps[r] /\ exc[r].kind # "extract"

\* The rows of pages 1..k, page by page, each carrying the file name and the
\* number of its page.
RECURSIVE ExpectedBatch(_, _, _)
ExpectedBatch(name, pages, k) ==
  IF k = 0 THEN <<>>
  ELSE ExpectedBatch(name, pages, k - 1) \o
         [j \in 1..Len(pages[k]) |->
            [file_name |-> name, page_number |-> k,
             line_number |-> pages[k][j].line_number,
             line_text |-> pages[k][j].line_text]]

\* C10: extraction of an N-page document yields N pairs numbered 1..N in
\* order, one per frame, and the batch is at every moment the concatenation, in
\* page order, of the adapter output of the pages processed so far, each row
\* tagged with the upload's file name and its page's number.
C10_PagesAndBatchOrdered ==
  \A r \in Reqs :
    Extracted(r) =>
      /\ Len(images[r]) = nframes[r]
      /\ \A k \in 1..nframes[r] :
           images[r][k] = [page_number |-> k, frame |-> k - 1]
      /\ Len(pageRows[r]) = idx[r]
      /\ all_results[r] =
           ExpectedBatch(upload[r].filename, pageRows[r], Len(pageRows[r]))

\* A two-frame TIFF whose pages both yielded rows has been stored.
C10_Witness ==
  \E r \in Reqs :
    /\ pc[r] = "done"
    /\ status[r] = 200
    /\ TempExt(upload[r].filename) = ".tiff"
    /\ nframes[r] = 2
    /\ pageRows[r][1] # <<>>
    /\ pageRows[r][2] # <<>>
====
